---------------------------- MODULE Spec2Model ----------------------------
(***************************************************************************)
(* A model of src/rust/build.rs: the cargo build script that locates the   *)
(* autoconf-generated config.rust, parses it into a key/value map and      *)
(* prints linker directives for the "crypto" package.                      *)
(*                                                                         *)
(* Text.  A string is a sequence of segments.  The characters the code     *)
(* tests for are always segments of their own: the white space characters  *)
(* " " and "\t", and "#", "=", "-", "l", "L".  Any other segment ("foo",   *)
(* "TOR_LDFLAGS_zlib", "/usr/lib") stands for a run of characters that     *)
(* holds no white space, no '#', no '=' and does not begin with '-'.       *)
(* Every test of build.rs (trim, starts_with, find, split_whitespace,      *)
(* == "-l", [2..]) is then decided by whole segments.                      *)
(*                                                                         *)
(* One run of the program is one behaviour: Init chooses the environment   *)
(* (OUT_DIR, the directories holding a config.rust, the lines of that      *)
(* file, CARGO_PKG_NAME) and every action is one step of the code.         *)
(***************************************************************************)
EXTENDS Naturals, Integers, Sequences, FiniteSets, TLC

(***************************************************************************)
(* Bounds of the checked environments.                                     *)
(***************************************************************************)
MaxDepth == 3

MaxLines == 3

MaxTokens == 3

(***************************************************************************)
(* Text helpers of the Rust standard library, as build.rs uses them.       *)
(***************************************************************************)
Str(w) == <<w>>

IsWhitespace(c) == c \in {" ", "\t"}

RECURSIVE TrimStart(_)
TrimStart(s) ==
    IF s = <<>> THEN s
    ELSE IF IsWhitespace(Head(s)) THEN TrimStart(Tail(s))
    ELSE s

RECURSIVE TrimEnd(_)
TrimEnd(s) ==
    IF s = <<>> THEN s
    ELSE IF IsWhitespace(s[Len(s)]) THEN TrimEnd(SubSeq(s, 1, Len(s) - 1))
    ELSE s

Trim(s) == TrimEnd(TrimStart(s))

StartsWith(s, p) == Len(s) >= Len(p) /\ SubSeq(s, 1, Len(p)) = p

\* str::find: the 0-based offset of the first occurrence, None when absent.
None == -1

RECURSIVE FindFrom(_, _, _)
FindFrom(s, c, i) ==
    IF i > Len(s) THEN None
    ELSE IF s[i] = c THEN i - 1
    ELSE FindFrom(s, c, i + 1)

Find(s, c) == FindFrom(s, c, 1)

\* str::split_at(idx): the two halves, the second starting at offset idx.
SplitAt(s, idx) == <<SubSeq(s, 1, idx), SubSeq(s, idx + 1, Len(s))>>

\* &s[n..]
SliceFrom(s, n) == SubSeq(s, n + 1, Len(s))

\* The first white-space-delimited word of s and the text after it.
RECURSIVE TakeWord(_, _)
TakeWord(acc, s) ==
    IF s = <<>> \/ IsWhitespace(Head(s)) THEN <<acc, s>>
    ELSE TakeWord(Append(acc, Head(s)), Tail(s))

\* str::split_whitespace, collected.
RECURSIVE SplitWhitespace(_)
SplitWhitespace(s) ==
    LET t == TrimStart(s) IN
    IF t = <<>> THEN <<>>
    ELSE LET w == TakeWord(<<>>, t) IN <<w[1]>> \o SplitWhitespace(w[2])

(***************************************************************************)
(* PathBuf.  An absolute path is the sequence of its components below the  *)
(* root; <<>> is the root itself.  cargo always sets OUT_DIR to an         *)
(* absolute path.                                                          *)
(***************************************************************************)
PathPush(p, name) == Append(p, name)

\* A pop that refuses to step up to the root.
PathPop_StopBelowRoot(p) ==
    IF Len(p) <= 1 THEN [ok |-> FALSE, path |-> p]
    ELSE [ok |-> TRUE, path |-> SubSeq(p, 1, Len(p) - 1)]

\* PathBuf::pop: truncate to the parent; false when there is no parent.
PathPop(p) ==
    IF p = <<>> THEN [ok |-> FALSE, path |-> p]
    ELSE [ok |-> TRUE, path |-> SubSeq(p, 1, Len(p) - 1)]

(***************************************************************************)
(* Config: the wrapper around HashMap<String,String>, a set of entries     *)
(* <<key, value>>.                                                         *)
(***************************************************************************)
HasKey(m, k) == \E e \in m : e[1] = k

\* An insert that keeps the entry already there (HashMap::entry.or_insert).
MapInsert_KeepFirst(m, k, v) == IF HasKey(m, k) THEN m ELSE m \cup {<<k, v>>}

\* HashMap::insert: the entry of an equal key is replaced.
MapInsert(m, k, v) == {e \in m : e[1] # k} \cup {<<k, v>>}

\* Config::get on a key that is present.
Get(m, k) == (CHOOSE e \in m : e[1] = k)[2]

\* A search for the last '=' instead of the first.
RECURSIVE SepIndex_Last(_)
SepIndex_Last(s) ==
    IF s = <<>> THEN None
    ELSE IF s[Len(s)] = "=" THEN Len(s) - 1
    ELSE SepIndex_Last(SubSeq(s, 1, Len(s) - 1))

\* Config::load, line 56: s.find("=").
SepIndex(s) == Find(s, "=")

\* A skip test that also passes over a line without '='.
IsSkipped_OrNoSep(s) ==
    StartsWith(Trim(s), Str("#")) \/ Trim(s) = <<>> \/ SepIndex(s) = None

\* The skip test without the trim.
IsSkipped_NoTrim(s) == StartsWith(s, Str("#")) \/ s = <<>>

\* Config::load, line 53: comment or blank.
IsSkipped(s) == StartsWith(Trim(s), Str("#")) \/ Trim(s) = <<>>

\* Config::load, lines 63-64: (var, val) of a line whose '=' is at idx.
KeyVal(s, idx) ==
    LET parts == SplitAt(s, idx) IN
    [var |-> parts[1], val |-> SliceFrom(parts[2], 1)]

(***************************************************************************)
(* The directive lines, each println! as <<format prefix, argument>>.      *)
(***************************************************************************)
Component(s) == <<"cargo:rustc-link-lib=static=", s>>

Dependency(s) == <<"cargo:rustc-link-lib=", s>>

LinkPath(s) == <<"cargo:rustc-link-search=native=", s>>

LinkRelpath(builddir, s) ==
    <<"cargo:rustc-link-search=native=", builddir \o Str("/") \o s>>


(***************************************************************************)
(* main, lines 137-182: the call sequence of the "crypto" package.         *)
(***************************************************************************)
FromCflagsCall(key) == [op |-> "from_cflags", arg |-> Str(key)]

LinkRelpathCall(s) == [op |-> "link_relpath", arg |-> Str(s)]

ComponentCall(s) == [op |-> "component", arg |-> Str(s)]

LdflagsCalls ==
    << FromCflagsCall("TOR_LDFLAGS_zlib"),
       FromCflagsCall("TOR_LDFLAGS_openssl"),
       FromCflagsCall("TOR_LDFLAGS_libevent") >>

RelpathCalls ==
    << LinkRelpathCall("src/lib"),
       LinkRelpathCall("src/common"),
       LinkRelpathCall("src/ext/keccak-tiny"),
       LinkRelpathCall("src/ext/ed25519/ref10"),
       LinkRelpathCall("src/ext/ed25519/donna"),
       LinkRelpathCall("src/trunnel") >>

ComponentCalls ==
    << ComponentCall("tor-crypt-ops-testing"),
       ComponentCall("or-testing"),
       ComponentCall("tor-log"),
       ComponentCall("tor-lock"),
       ComponentCall("tor-fdio"),
       ComponentCall("tor-container-testing"),
       ComponentCall("tor-smartlist-core-testing"),
       ComponentCall("tor-string-testing"),
       ComponentCall("tor-malloc"),
       ComponentCall("tor-wallclock"),
       ComponentCall("tor-err-testing"),
       ComponentCall("or-event-testing"),
       ComponentCall("tor-intmath-testing"),
       ComponentCall("tor-ctime-testing"),
       ComponentCall("curve25519_donna"),
       ComponentCall("keccak-tiny"),
       ComponentCall("ed25519_ref10"),
       ComponentCall("ed25519_donna"),
       ComponentCall("or-trunnel-testing") >>

LibsCalls ==
    << FromCflagsCall("TOR_ZLIB_LIBS"),
       FromCflagsCall("TOR_LIB_MATH"),
       FromCflagsCall("TOR_OPENSSL_LIBS"),
       FromCflagsCall("TOR_LIBEVENT_LIBS"),
       FromCflagsCall("TOR_LIB_WS32"),
       FromCflagsCall("TOR_LIB_GDI"),
       FromCflagsCall("TOR_LIB_USERENV"),
       FromCflagsCall("CURVE25519_LIBS"),
       FromCflagsCall("TOR_LZMA_LIBS"),
       FromCflagsCall("TOR_ZSTD_LIBS"),
       FromCflagsCall("LIBS") >>

\* The components first and the LDFLAGS last: a reordered dispatch.
CryptoCalls_Reordered == ComponentCalls \o RelpathCalls \o LibsCalls \o LdflagsCalls

CryptoCalls == LdflagsCalls \o RelpathCalls \o ComponentCalls \o LibsCalls

BuilddirKey == Str("BUILDDIR")

\* main, line 128: the match arm.
IsRecognized(pkg) == pkg = "crypto"

(***************************************************************************)
(* The environments of the checked runs.                                   *)
(***************************************************************************)
SeqsUpTo(S, n) == UNION {[1..k -> S] : k \in 0..n}

RECURSIVE Concat(_)
Concat(ss) == IF ss = <<>> THEN <<>> ELSE Head(ss) \o Concat(Tail(ss))

\* The directory chain /d/d/.../d and its prefixes.
Chain == [i \in 1..MaxDepth |-> "d"]

ChainDirs == {SubSeq(Chain, 1, k) : k \in 0..MaxDepth}

ConfigLine(k, v) == k \o Str("=") \o v

ConfigKeys ==
    << BuilddirKey >> \o [i \in 1..Len(LdflagsCalls) |-> LdflagsCalls[i].arg]
                      \o [i \in 1..Len(LibsCalls) |-> LibsCalls[i].arg]

\* A complete config.rust: BUILDDIR=/build/tor and every flag key = v,
\* with the keys of `drop` left out.
CompleteFile(v, drop) ==
    LET line(i) == IF ConfigKeys[i] = BuilddirKey
                   THEN ConfigLine(BuilddirKey, Str("/build/tor"))
                   ELSE ConfigLine(ConfigKeys[i], v)
        keep == {i \in 1..Len(ConfigKeys) : ConfigKeys[i] \notin drop}
        nth[n \in 0..Len(ConfigKeys)] ==
            IF n = 0 THEN <<>>
            ELSE IF n \in keep THEN Append(nth[n - 1], line(n)) ELSE nth[n - 1]
    IN nth[Len(ConfigKeys)]

Lib == <<"-", "l">>

LibPath == <<"-", "L">>

TokenPool ==
    { Lib, LibPath, Lib \o Str("foo"), LibPath \o Str("/p"), Str("baz"), Str("-") }

\* Tokens joined by single spaces, or by white-space runs with white space
\* before the first and after the last token.
RECURSIVE JoinTokens(_, _)
JoinTokens(ts, sep) ==
    IF ts = <<>> THEN <<>>
    ELSE IF Len(ts) = 1 THEN Head(ts)
    ELSE Head(ts) \o sep \o JoinTokens(Tail(ts), sep)

FlagValues ==
    {JoinTokens(ts, Str(" ")) : ts \in SeqsUpTo(TokenPool, MaxTokens)}
    \cup {<<"\t">> \o JoinTokens(ts, <<" ", "\t">>) \o <<" ", " ">> :
              ts \in SeqsUpTo(TokenPool, MaxTokens)}

\* "-lfoo -L/usr/lib -lbar baz -L /opt/lib"
ExampleMixed ==
    JoinTokens(<< Lib \o Str("foo"), LibPath \o Str("/usr/lib"), Lib \o Str("bar"),
                  Str("baz"), LibPath, Str("/opt/lib") >>, Str(" "))

\* "-lfoo -L"
ExampleTrailing == JoinTokens(<< Lib \o Str("foo"), LibPath >>, Str(" "))

ZlibKey == Str("TOR_LDFLAGS_zlib")

OpensslKey == Str("TOR_LDFLAGS_openssl")

LinePool ==
    { <<>>,
      <<" ", "\t">>,
      <<"#", "note">>,
      <<" ", "#">> \o ConfigLine(ZlibKey, Lib \o Str("c")),
      ConfigLine(ZlibKey, Lib \o Str("z")),
      ConfigLine(ZlibKey, LibPath \o <<"/p", "=", "q">>),
      Str(" ") \o ConfigLine(ZlibKey, Lib \o Str("y")),
      ConfigLine(ZlibKey, <<>>),
      ConfigLine(<<>>, Str("v")),
      Str("oops"),
      <<"oops", " ">>,
      ConfigLine(OpensslKey, <<" ">> \o Lib \o Str("ssl")) }

Packages == {"crypto", "tor_util", ""}

Env(o, d, f, p) == [out_dir |-> o, cfg_dirs |-> d, file |-> f, package |-> p]

\* Arbitrary short files next to OUT_DIR.
ParseEnvs == {Env(<<>>, {<<>>}, f, "crypto") : f \in SeqsUpTo(LinePool, MaxLines)}

\* Complete files, every flag key holding the same flag string.
FlagEnvs ==
    {Env(Str("d"), {<<>>}, CompleteFile(v, {}), "crypto") :
        v \in FlagValues \cup {ExampleMixed, ExampleTrailing}}

\* Complete files with at most one key left out, for every package name.
KeyEnvs ==
    {Env(<<>>, {<<>>}, CompleteFile(Lib \o Str("z"), d), p) :
        d \in {{}} \cup {{ConfigKeys[i]} : i \in 1..Len(ConfigKeys)}, p \in Packages}

\* Every start directory of the chain against every placement of config.rust.
SearchEnvs ==
    {Env(o, d, << ConfigLine(ZlibKey, Lib \o Str("z")) >>, "crypto") :
        o \in ChainDirs, d \in SUBSET ChainDirs}

Environments == ParseEnvs \cup FlagEnvs \cup KeyEnvs \cup SearchEnvs

(***************************************************************************)
(* The state of one run.                                                   *)
(***************************************************************************)
VARIABLES
    out_dir,        \* env OUT_DIR
    cfg_dirs,       \* the directories that hold a config.rust
    file,           \* the lines of config.rust, as reader.lines() yields them
    package,        \* env CARGO_PKG_NAME
    pc,             \* where the run is
    err,            \* why it aborted, "none" while it has not
    path,           \* find_cfg: path
    probed,         \* find_cfg: the paths handed to path.exists(), in order
    cfg_path,       \* find_cfg: the path returned
    lineNo,         \* load: the next line of the reader
    map,            \* load: map
    cfg,            \* main: cfg
    callIdx,        \* main: the call being made
    toks,           \* from_cflags: the tokens of self.get(s).split_whitespace()
    ti,             \* from_cflags: the next token of the iterator
    next_is_lib,    \* from_cflags: next_is_lib
    next_is_path,   \* from_cflags: next_is_path
    mark,           \* from_cflags: Len(out) when the call was entered
    out             \* the lines printed so far

vars == << out_dir, cfg_dirs, file, package, pc, err, path, probed, cfg_path,
           lineNo, map, cfg, callIdx, toks, ti, next_is_lib, next_is_path,
           mark, out >>

env == << out_dir, cfg_dirs, file, package >>

findVars == << path, probed, cfg_path >>

loadVars == << lineNo, map, cfg >>

scanVars == << toks, ti, next_is_lib, next_is_path, mark >>

Init ==
    /\ \E e \in Environments :
          /\ out_dir = e.out_dir
          /\ cfg_dirs = e.cfg_dirs
          /\ file = e.file
          /\ package = e.package
    /\ pc = "find"
    /\ err = "none"
    /\ path = out_dir
    /\ probed = <<>>
    /\ cfg_path = <<>>
    /\ lineNo = 0
    /\ map = {}
    /\ cfg = {}
    /\ callIdx = 0
    /\ toks = <<>>
    /\ ti = 0
    /\ next_is_lib = FALSE
    /\ next_is_path = FALSE
    /\ mark = 0
    /\ out = <<>>

(***************************************************************************)
(* find_cfg, lines 26-39.                                                  *)
(***************************************************************************)
Exists(p) == \E d \in cfg_dirs : p = PathPush(d, "config.rust")

Panic(kind) == pc' = "panic" /\ err' = kind

\* lines 29-31: the probe finds the file.
FindCfgFound ==
    /\ pc = "find"
    /\ LET p == PathPush(path, "config.rust") IN
          /\ Exists(p)
          /\ probed' = Append(probed, p)
          /\ path' = p
          /\ cfg_path' = p
    /\ pc' = "open"
    /\ UNCHANGED << env, err, loadVars, callIdx, scanVars, out >>

\* lines 29-34: nothing here, and there is a parent to step up to.
FindCfgUp ==
    /\ pc = "find"
    /\ LET p == PathPush(path, "config.rust")
           up == PathPop(PathPop(p).path)
       IN /\ ~Exists(p)
          /\ up.ok
          /\ probed' = Append(probed, p)
          /\ path' = up.path
    /\ UNCHANGED << env, pc, err, cfg_path, loadVars, callIdx, scanVars, out >>

\* lines 34-37: nothing here and no parent; load returns the error and
\* main's unwrap panics.
FindCfgNotFound ==
    /\ pc = "find"
    /\ LET p == PathPush(path, "config.rust")
           up == PathPop(PathPop(p).path)
       IN /\ ~Exists(p)
          /\ ~up.ok
          /\ probed' = Append(probed, p)
          /\ path' = up.path
    /\ Panic("NotFound")
    /\ UNCHANGED << env, cfg_path, loadVars, callIdx, scanVars, out >>

(***************************************************************************)
(* Config::load, lines 46-68.                                              *)
(***************************************************************************)
\* lines 48-50
LoadOpen ==
    /\ pc = "open"
    /\ lineNo' = 1
    /\ map' = {}
    /\ pc' = "load"
    /\ UNCHANGED << env, err, findVars, cfg, callIdx, scanVars, out >>

\* lines 53-55
LoadSkip ==
    /\ pc = "load"
    /\ lineNo <= Len(file)
    /\ IsSkipped(file[lineNo])
    /\ lineNo' = lineNo + 1
    /\ UNCHANGED << env, pc, err, findVars, map, cfg, callIdx, scanVars, out >>

\* lines 56-60: the error is returned, and main's unwrap panics.
LoadInvalid ==
    /\ pc = "load"
    /\ lineNo <= Len(file)
    /\ ~IsSkipped(file[lineNo])
    /\ SepIndex(file[lineNo]) = None
    /\ Panic("InvalidData")
    /\ UNCHANGED << env, findVars, loadVars, callIdx, scanVars, out >>

\* lines 61-65
LoadInsert ==
    /\ pc = "load"
    /\ lineNo <= Len(file)
    /\ ~IsSkipped(file[lineNo])
    /\ SepIndex(file[lineNo]) # None
    /\ LET kv == KeyVal(file[lineNo], SepIndex(file[lineNo])) IN
          map' = MapInsert(map, kv.var, kv.val)
    /\ lineNo' = lineNo + 1
    /\ UNCHANGED << env, pc, err, findVars, cfg, callIdx, scanVars, out >>

\* line 67, and main line 124
LoadDone ==
    /\ pc = "load"
    /\ lineNo > Len(file)
    /\ cfg' = map
    /\ pc' = "main"
    /\ UNCHANGED << env, err, findVars, lineNo, map, callIdx, scanVars, out >>

(***************************************************************************)
(* main, lines 123-188.                                                    *)
(***************************************************************************)
\* lines 125-128: the package has an arm.
MainDispatch ==
    /\ pc = "main"
    /\ IsRecognized(package)
    /\ callIdx' = 1
    /\ pc' = "calls"
    /\ UNCHANGED << env, err, findVars, loadVars, scanVars, out >>

\* lines 184-186
MainUnknownPackage ==
    /\ pc = "main"
    /\ ~IsRecognized(package)
    /\ Panic("UnknownPackage")
    /\ UNCHANGED << env, findVars, loadVars, callIdx, scanVars, out >>

CurrentCall == CryptoCalls[callIdx]

AtCall(op) == pc = "calls" /\ callIdx <= Len(CryptoCalls) /\ CurrentCall.op = op

\* Config::component, lines 78-80
CallComponent ==
    /\ AtCall("component")
    /\ out' = Append(out, Component(CurrentCall.arg))
    /\ callIdx' = callIdx + 1
    /\ UNCHANGED << env, pc, err, findVars, loadVars, scanVars >>

\* A link_relpath that prints the bare suffix when BUILDDIR is not set.
CallLinkRelpathMissing_Lenient ==
    /\ AtCall("link_relpath")
    /\ ~HasKey(cfg, BuilddirKey)
    /\ out' = Append(out, LinkRelpath(<<>>, CurrentCall.arg))
    /\ callIdx' = callIdx + 1
    /\ UNCHANGED << env, pc, err, findVars, loadVars, scanVars >>

\* Config::link_relpath, lines 88-91
CallLinkRelpath ==
    /\ AtCall("link_relpath")
    /\ HasKey(cfg, BuilddirKey)
    /\ out' = Append(out, LinkRelpath(Get(cfg, BuilddirKey), CurrentCall.arg))
    /\ callIdx' = callIdx + 1
    /\ UNCHANGED << env, pc, err, findVars, loadVars, scanVars >>

\* Config::link_relpath, line 89: get("BUILDDIR") panics.
CallLinkRelpathMissing ==
    /\ AtCall("link_relpath")
    /\ ~HasKey(cfg, BuilddirKey)
    /\ Panic("MissingKey")
    /\ UNCHANGED << env, findVars, loadVars, callIdx, scanVars, out >>

(***************************************************************************)
(* Config::from_cflags, lines 100-120.                                     *)
(***************************************************************************)
\* An entry that leaves the two flags as the previous call left them.
FromCflagsEnter_KeepFlags ==
    /\ AtCall("from_cflags")
    /\ HasKey(cfg, CurrentCall.arg)
    /\ toks' = SplitWhitespace(Get(cfg, CurrentCall.arg))
    /\ ti' = 1
    /\ mark' = Len(out)
    /\ pc' = "scan"
    /\ UNCHANGED << env, err, findVars, loadVars, callIdx, next_is_lib,
                    next_is_path, out >>

\* lines 101-103: the flags are cleared and the value is looked up and split.
FromCflagsEnter ==
    /\ AtCall("from_cflags")
    /\ HasKey(cfg, CurrentCall.arg)
    /\ next_is_lib' = FALSE
    /\ next_is_path' = FALSE
    /\ toks' = SplitWhitespace(Get(cfg, CurrentCall.arg))
    /\ ti' = 1
    /\ mark' = Len(out)
    /\ pc' = "scan"
    /\ UNCHANGED << env, err, findVars, loadVars, callIdx, out >>

\* line 103: get(s) panics.
FromCflagsMissing ==
    /\ AtCall("from_cflags")
    /\ ~HasKey(cfg, CurrentCall.arg)
    /\ Panic("MissingKey")
    /\ UNCHANGED << env, findVars, loadVars, callIdx, scanVars, out >>

Scanning == pc = "scan" /\ ti <= Len(toks)

ent == toks[ti]

ScanFrame == UNCHANGED << env, pc, err, findVars, loadVars, callIdx, toks, mark >>

\* A strip of one character instead of two.
Inline_StripOne(e) == SliceFrom(e, 1)

\* lines 115 and 117: &ent[2..]
Inline(e) == SliceFrom(e, 2)

\* A consumed argument that leaves next_is_lib set.
ScanLibArg_NoReset ==
    /\ Scanning
    /\ next_is_lib
    /\ out' = Append(out, Dependency(ent))
    /\ ti' = ti + 1
    /\ UNCHANGED << next_is_lib, next_is_path >>
    /\ ScanFrame

\* lines 104-106
ScanLibArg ==
    /\ Scanning
    /\ next_is_lib
    /\ out' = Append(out, Dependency(ent))
    /\ next_is_lib' = FALSE
    /\ ti' = ti + 1
    /\ UNCHANGED next_is_path
    /\ ScanFrame

\* lines 107-109
ScanPathArg ==
    /\ Scanning
    /\ ~next_is_lib
    /\ next_is_path
    /\ out' = Append(out, LinkPath(ent))
    /\ next_is_path' = FALSE
    /\ ti' = ti + 1
    /\ UNCHANGED next_is_lib
    /\ ScanFrame

Idle == ~next_is_lib /\ ~next_is_path

\* lines 110-111
ScanLibSwitch ==
    /\ Scanning
    /\ Idle
    /\ ent = Lib
    /\ next_is_lib' = TRUE
    /\ ti' = ti + 1
    /\ UNCHANGED << next_is_path, out >>
    /\ ScanFrame

\* lines 112-113
ScanPathSwitch ==
    /\ Scanning
    /\ Idle
    /\ ent # Lib
    /\ ent = LibPath
    /\ next_is_path' = TRUE
    /\ ti' = ti + 1
    /\ UNCHANGED << next_is_lib, out >>
    /\ ScanFrame

\* lines 114-115
ScanInlinePath ==
    /\ Scanning
    /\ Idle
    /\ ent # Lib
    /\ ent # LibPath
    /\ StartsWith(ent, LibPath)
    /\ out' = Append(out, LinkPath(Inline(ent)))
    /\ ti' = ti + 1
    /\ UNCHANGED << next_is_lib, next_is_path >>
    /\ ScanFrame

\* lines 116-117
ScanInlineLib ==
    /\ Scanning
    /\ Idle
    /\ ent # Lib
    /\ ent # LibPath
    /\ ~StartsWith(ent, LibPath)
    /\ StartsWith(ent, Lib)
    /\ out' = Append(out, Dependency(Inline(ent)))
    /\ ti' = ti + 1
    /\ UNCHANGED << next_is_lib, next_is_path >>
    /\ ScanFrame

\* line 118: no arm matches.
ScanIgnore ==
    /\ Scanning
    /\ Idle
    /\ ent # Lib
    /\ ent # LibPath
    /\ ~StartsWith(ent, LibPath)
    /\ ~StartsWith(ent, Lib)
    /\ ti' = ti + 1
    /\ UNCHANGED << next_is_lib, next_is_path, out >>
    /\ ScanFrame

\* lines 119-120: the iterator is exhausted and from_cflags returns.
ScanEnd ==
    /\ pc = "scan"
    /\ ti > Len(toks)
    /\ callIdx' = callIdx + 1
    /\ pc' = "calls"
    /\ UNCHANGED << env, err, findVars, loadVars, scanVars, out >>

\* line 183: the arm is over and main returns.
MainReturn ==
    /\ pc = "calls"
    /\ callIdx > Len(CryptoCalls)
    /\ pc' = "done"
    /\ UNCHANGED << env, err, findVars, loadVars, callIdx, scanVars, out >>

Next ==
    \/ FindCfgFound
    \/ FindCfgUp
    \/ FindCfgNotFound
    \/ LoadOpen
    \/ LoadSkip
    \/ LoadInvalid
    \/ LoadInsert
    \/ LoadDone
    \/ MainDispatch
    \/ MainUnknownPackage
    \/ CallComponent
    \/ CallLinkRelpath
    \/ CallLinkRelpathMissing
    \/ FromCflagsEnter
    \/ FromCflagsMissing
    \/ ScanLibArg
    \/ ScanPathArg
    \/ ScanLibSwitch
    \/ ScanPathSwitch
    \/ ScanInlinePath
    \/ ScanInlineLib
    \/ ScanIgnore
    \/ ScanEnd
    \/ MainReturn

Spec == Init /\ [][Next]_vars


(***************************************************************************)
(* What the file says, read off its lines without running the loader.      *)
(***************************************************************************)
Blank(l) == \A i \in 1..Len(l) : l[i] \in {" ", "\t"}

Comment(l) ==
    \E i \in 1..Len(l) : l[i] = "#" /\ \A j \in 1..(i - 1) : l[j] \in {" ", "\t"}

Ignored(l) == Blank(l) \/ Comment(l)

HasEq(l) == \E i \in 1..Len(l) : l[i] = "="

FirstEq(l) == CHOOSE i \in 1..Len(l) : l[i] = "=" /\ \A j \in 1..(i - 1) : l[j] # "="

KeyOfLine(l) == SubSeq(l, 1, FirstEq(l) - 1)

ValOfLine(l) == SubSeq(l, FirstEq(l) + 1, Len(l))

EntryLine(l) == ~Ignored(l) /\ HasEq(l)

Malformed(l) == ~Ignored(l) /\ ~HasEq(l)

\* The lines of ls that are neither blank nor comments, in order.
Effective(ls) == SelectSeq(ls, LAMBDA l : ~Ignored(l))

\* The mapping of lines that all hold a '=': the last line of a key decides.
MappingOf(ls) ==
    {<<KeyOfLine(ls[i]), ValOfLine(ls[i])>> :
        i \in {n \in 1..Len(ls) :
                 \A m \in (n + 1)..Len(ls) : KeyOfLine(ls[m]) # KeyOfLine(ls[n])}}

EntryIndexes(k) == {n \in 1..Len(file) : EntryLine(file[n]) /\ KeyOfLine(file[n]) = k}

FileKeys == {KeyOfLine(file[n]) : n \in {m \in 1..Len(file) : EntryLine(file[m])}}

\* The value of the last line that sets k.
LastValue(k) ==
    ValOfLine(file[CHOOSE n \in EntryIndexes(k) : \A m \in EntryIndexes(k) : m <= n])

(***************************************************************************)
(* What a flag string says, read off its text without running the scanner. *)
(***************************************************************************)
WordStarts(v) ==
    {i \in 1..Len(v) : v[i] \notin {" ", "\t"} /\ (i = 1 \/ v[i - 1] \in {" ", "\t"})}

WordEnd(v, i) ==
    CHOOSE j \in i..Len(v) :
        /\ \A m \in i..j : v[m] \notin {" ", "\t"}
        /\ (j = Len(v) \/ v[j + 1] \in {" ", "\t"})

\* The maximal runs of non-white-space of v, left to right.
Words(v) ==
    [n \in 1..Cardinality(WordStarts(v)) |->
        LET i == CHOOSE i \in WordStarts(v) :
                     Cardinality({j \in WordStarts(v) : j < i}) = n - 1
        IN SubSeq(v, i, WordEnd(v, i))]

IsSwitch(t) == t = <<"-", "l">> \/ t = <<"-", "L">>

\* Token i is the argument of a switch: the run of standalone switches that
\* ends right before it has odd length.
IsArg(ts, i) ==
    Cardinality({k \in 1..(i - 1) : \A m \in k..(i - 1) : IsSwitch(ts[m])}) % 2 = 1

\* What a token yields when no switch is pending.
InlineDirective(t) ==
    IF Len(t) > 2 /\ t[1] = "-" /\ t[2] = "L"
        THEN << LinkPath(SubSeq(t, 3, Len(t))) >>
    ELSE IF Len(t) > 2 /\ t[1] = "-" /\ t[2] = "l"
        THEN << Dependency(SubSeq(t, 3, Len(t))) >>
    ELSE <<>>

DirectiveOf(ts, i) ==
    IF IsArg(ts, i)
        THEN IF ts[i - 1] = <<"-", "l">> THEN << Dependency(ts[i]) >>
                                          ELSE << LinkPath(ts[i]) >>
    ELSE InlineDirective(ts[i])

Directives(ts) == Concat([i \in 1..Len(ts) |-> DirectiveOf(ts, i)])

ExpectedOfCall(c) ==
    CASE c.op = "component" -> << Component(c.arg) >>
      [] c.op = "link_relpath" -> << LinkRelpath(LastValue(BuilddirKey), c.arg) >>
      [] c.op = "from_cflags" -> Directives(Words(LastValue(c.arg)))

ExpectedOf(calls) == Concat([i \in 1..Len(calls) |-> ExpectedOfCall(calls[i])])

\* The key a call looks up.
KeyNeeded(c) ==
    CASE c.op = "component" -> {}
      [] c.op = "link_relpath" -> {BuilddirKey}
      [] c.op = "from_cflags" -> {c.arg}

\* The lines printed by the from_cflags call in progress (or the last one).
Emitted == SubSeq(out, mark + 1, Len(out))

Front(s) == SubSeq(s, 1, Len(s) - 1)

FileRead == pc \notin {"find", "open"} /\ err # "NotFound"

(***************************************************************************)
(* Config::load                                                            *)
(***************************************************************************)
\* C4: the line the loader has just taken, when it is neither blank nor a
\* comment and holds a '=', is stored as the entry whose key is the text
\* before its first '=' and whose value is the text after it, both verbatim
\* (later '=' stay in the value, leading white space stays in the key).
C4_EntryVerbatim ==
    (pc = "load" /\ lineNo > 1 /\ EntryLine(file[lineNo - 1]))
        => /\ <<KeyOfLine(file[lineNo - 1]), ValOfLine(file[lineNo - 1])>> \in map
           /\ KeyOfLine(file[lineNo - 1]) \o <<"=">> \o ValOfLine(file[lineNo - 1])
                  = file[lineNo - 1]
           /\ \A i \in 1..Len(KeyOfLine(file[lineNo - 1])) :
                  KeyOfLine(file[lineNo - 1])[i] # "="

\* A value with a second '=' and a key with leading white space, both stored.
C4_Witness ==
    /\ pc = "load"
    /\ lineNo = 3
    /\ file[1] = ConfigLine(ZlibKey, <<"-", "L", "/p", "=", "q">>)
    /\ file[2] = <<" ">> \o ConfigLine(ZlibKey, <<"-", "l", "y">>)
    /\ map = { <<ZlibKey, <<"-", "L", "/p", "=", "q">>>>,
               <<(<<" ">> \o ZlibKey), <<"-", "l", "y">>>> }

\* C5: once the file is being read, a line that is neither blank nor a
\* comment and holds no '=' (anywhere in the file) keeps the run inside the
\* loader until it aborts with InvalidData: no mapping is returned and
\* nothing is printed.
C5_MalformedAborts ==
    (FileRead /\ \E n \in 1..Len(file) : Malformed(file[n]))
        => /\ pc \in {"load", "panic"}
           /\ pc = "panic" => err = "InvalidData"
           /\ pc = "load" => \E n \in lineNo..Len(file) : Malformed(file[n])
           /\ cfg = {}
           /\ out = <<>>

\* The malformed line is the last one, after two well-formed lines.
C5_Witness ==
    /\ pc = "panic"
    /\ err = "InvalidData"
    /\ Len(file) = 3
    /\ EntryLine(file[1])
    /\ EntryLine(file[2])
    /\ Malformed(file[3])
    /\ out = <<>>

\* C6: blank lines and comment lines, with or without a '=', add no entry
\* and raise no error: the mapping built so far, and the mapping returned,
\* is the mapping of the lines read with those lines removed, and a failure
\* is never at such a line.
C6_IgnoredLines ==
    /\ pc = "load" => map = MappingOf(Effective(SubSeq(file, 1, lineNo - 1)))
    /\ pc = "main" => cfg = MappingOf(Effective(file))
    /\ err = "InvalidData" => ~Ignored(file[lineNo])

\* A comment holding a '=', a blank line and an entry, loaded without error.
C6_Witness ==
    /\ pc = "main"
    /\ \E i, j, k \in 1..Len(file) :
          /\ Comment(file[i]) /\ HasEq(file[i])
          /\ Blank(file[j]) /\ file[j] # <<>>
          /\ EntryLine(file[k])
    /\ Cardinality(cfg) = 1

\* C10: when several well-formed lines set the same key, the mapping that
\* load returns holds exactly one entry for it, with the value of the last
\* such line, and the tokens from_cflags then scans for that key are the
\* words of that last value.
C10_LastWins ==
    /\ pc = "main" =>
          \A k \in FileKeys :
              /\ Cardinality({e \in cfg : e[1] = k}) = 1
              /\ <<k, LastValue(k)>> \in cfg
    /\ (pc = "scan" /\ ti = 1) => toks = Words(LastValue(CurrentCall.arg))

\* Two lines set TOR_LDFLAGS_zlib; the directive printed is the second's.
C10_Witness ==
    /\ pc = "calls"
    /\ callIdx = 2
    /\ Len(file) = 2
    /\ file[1] = ConfigLine(ZlibKey, <<"-", "l", "z">>)
    /\ file[2] = ConfigLine(ZlibKey, <<"-", "L", "/p", "=", "q">>)
    /\ out = << LinkPath(<<"/p", "=", "q">>) >>

(***************************************************************************)
(* Config::from_cflags                                                     *)
(***************************************************************************)
C1_Step ==
    (Scanning /\ Idle) => (out' = out \o InlineDirective(ent) /\ ti' = ti + 1)

C1_Example ==
    (pc = "scan" /\ toks = Words(ExampleMixed) /\ ti > Len(toks))
        => Emitted = << Dependency(Str("foo")), LinkPath(Str("/usr/lib")),
                        Dependency(Str("bar")), LinkPath(Str("/opt/lib")) >>

\* C1: a token scanned while no switch is pending appends, after everything
\* printed before it, one link path (prefix stripped) when it starts with -L
\* and is longer than 2, one dependency (prefix stripped) when it starts
\* with -l and is longer than 2, and nothing otherwise; and the value
\* "-lfoo -L/usr/lib -lbar baz -L /opt/lib" prints foo, /usr/lib, bar,
\* /opt/lib in that order.
C1_InlineTokens == [][C1_Step]_vars /\ []C1_Example

\* The example value has been scanned to its end.
C1_Witness ==
    /\ pc = "scan"
    /\ toks = Words(ExampleMixed)
    /\ ti = 7
    /\ Len(Emitted) = 4

C2_Step ==
    /\ (Scanning /\ Idle /\ ent = <<"-", "l">>)
          => (next_is_lib' /\ ~next_is_path' /\ out' = out /\ ti' = ti + 1)
    /\ (Scanning /\ Idle /\ ent = <<"-", "L">>)
          => (next_is_path' /\ ~next_is_lib' /\ out' = out /\ ti' = ti + 1)
    /\ (Scanning /\ next_is_lib)
          => /\ out' = Append(out, Dependency(ent))
             /\ ~next_is_lib' /\ ~next_is_path'
             /\ ti' = ti + 1
    /\ (Scanning /\ next_is_path)
          => /\ out' = Append(out, LinkPath(ent))
             /\ ~next_is_lib' /\ ~next_is_path'
             /\ ti' = ti + 1

\* C2: a standalone -l (-L) met while no switch is pending prints nothing
\* and hands the scanner the very next token with next_is_lib
\* (next_is_path) set; that token, whatever its text, is printed unmodified
\* as one dependency (link path) and leaves the scanner idle; the two flags
\* are never set together.
C2_SwitchArgument == [][C2_Step]_vars /\ [](~(next_is_lib /\ next_is_path))

\* "-l -L ...": the -L has been consumed as the name of a dependency.
C2_Witness ==
    /\ pc = "scan"
    /\ ti = 3
    /\ toks[1] = <<"-", "l">>
    /\ toks[2] = <<"-", "L">>
    /\ Emitted = << Dependency(<<"-", "L">>) >>
    /\ Idle

EndsWithSwitch == Len(toks) > 0 /\ IsSwitch(toks[Len(toks)])

JustReturned ==
    pc = "calls" /\ callIdx > 1 /\ CryptoCalls[callIdx - 1].op = "from_cflags"

\* C3 as stated: whenever the last token is -l or -L, the call returns
\* without error having printed exactly what the value without that token
\* prints, and the next call starts idle.
C3_TrailingSwitch ==
    /\ (JustReturned /\ EndsWithSwitch)
          => (err = "none" /\ Emitted = Directives(Front(toks)))
    /\ (pc = "scan" /\ ti = 1) => Idle

\* C3, amended: the same, for a last token -l or -L that is not itself the
\* argument of a standalone switch before it.
C3_TrailingSwitchUnconsumed ==
    /\ (JustReturned /\ EndsWithSwitch /\ ~IsArg(toks, Len(toks)))
          => (err = "none" /\ Emitted = Directives(Front(toks)))
    /\ (pc = "scan" /\ ti = 1) => Idle

\* "-lfoo -L" has returned with dependency foo alone, and the next call has
\* started.
C3_Witness ==
    /\ pc = "scan"
    /\ callIdx = 2
    /\ ti = 1
    /\ toks = Words(ExampleTrailing)
    /\ out = << Dependency(Str("foo")) >>
    /\ Idle

(***************************************************************************)
(* find_cfg                                                                *)
(***************************************************************************)
\* The directory i - 1 levels above OUT_DIR.
Ancestor(i) == SubSeq(out_dir, 1, Len(out_dir) - (i - 1))

ExpectedProbes ==
    [i \in 1..(Len(out_dir) + 1) |-> Append(Ancestor(i), "config.rust")]

Holders == {i \in 1..(Len(out_dir) + 1) : Ancestor(i) \in cfg_dirs}

\* C7: the probes are OUT_DIR/config.rust, then each parent's in turn, the
\* root's last; no path is probed twice and at most depth + 1 are probed;
\* the search returns the first probe that exists, and fails with NotFound
\* exactly when every one of the depth + 1 probes has failed; while it runs,
\* each probe is one level further up.
C7_UpwardSearch ==
    /\ Len(probed) <= Len(out_dir) + 1
    /\ probed = SubSeq(ExpectedProbes, 1, Len(probed))
    /\ \A i, j \in 1..Len(probed) : i # j => probed[i] # probed[j]
    /\ pc = "find" =>
          /\ path = Ancestor(Len(probed) + 1)
          /\ Len(probed) <= Len(out_dir)
          /\ \A i \in 1..Len(probed) : i \notin Holders
    /\ (pc # "find" /\ err # "NotFound") =>
          /\ Holders # {}
          /\ Len(probed) \in Holders
          /\ \A i \in Holders : Len(probed) <= i
          /\ cfg_path = probed[Len(probed)]
    /\ err = "NotFound" =>
          /\ Holders = {}
          /\ Len(probed) = Len(out_dir) + 1
          /\ probed[Len(probed)] = << "config.rust" >>

\* No config.rust above a start directory two or more levels deep.
C7_Witness ==
    /\ err = "NotFound"
    /\ Len(out_dir) >= 2
    /\ cfg_dirs # {}
    /\ Len(probed) = Len(out_dir) + 1

(***************************************************************************)
(* main                                                                    *)
(***************************************************************************)
\* C8: main returns only for the package "crypto", and then the output is
\* the directives of the LDFLAGS keys, then the relative search paths, then
\* the static components, then the directives of the LIBS keys, each group
\* in call order; for any other package nothing is ever printed and no call
\* of the sequence is made.
C8_Dispatch ==
    /\ pc = "done" =>
          /\ package = "crypto"
          /\ out = ExpectedOf(LdflagsCalls) \o ExpectedOf(RelpathCalls)
                      \o ExpectedOf(ComponentCalls) \o ExpectedOf(LibsCalls)
    /\ package # "crypto" => (out = <<>> /\ pc \notin {"calls", "scan", "done"})

\* A complete run over the example value: 6 + 19 fixed directives and 4 for
\* each of the 14 flag keys.
C8_Witness ==
    /\ pc = "done"
    /\ file = CompleteFile(ExampleMixed, {})
    /\ Len(out) = 81

CallsMade == IF pc = "scan" THEN callIdx ELSE callIdx - 1

\* C9: a call that has got past its lookup found its key in the file;
\* a run aborted by a missing key stopped at the call whose key the file
\* lacks, with the directives of the calls before it printed and none of
\* its own, and takes no further step.
C9_MissingKey ==
    /\ (pc \in {"calls", "scan", "done"} /\ CallsMade >= 1) =>
          KeyNeeded(CryptoCalls[CallsMade]) \subseteq FileKeys
    /\ err = "MissingKey" =>
          /\ pc = "panic"
          /\ KeyNeeded(CurrentCall) \cap FileKeys = {}
          /\ KeyNeeded(CurrentCall) # {}
          /\ out = ExpectedOf(SubSeq(CryptoCalls, 1, callIdx - 1))
          /\ ~ENABLED Next

\* BUILDDIR is missing: the first link_relpath aborts after the directives
\* of the three LDFLAGS keys were printed.
C9_Witness ==
    /\ err = "MissingKey"
    /\ CurrentCall.op = "link_relpath"
    /\ callIdx = 4
    /\ Len(out) = 3

=============================================================================
